---- MODULE Spec2Model ----
\* A model of libs/concrete.py: class ShiftRegister, the driver of a chain of
\* serial-in/parallel-out shift registers over four GPIO pins.
\*
\* Every method is one action.  The GPIO calls a method issues are recorded,
\* in order, in `trace`; a GPIO call may raise, and an exception ends the
\* method where Python would end it.
EXTENDS Integers, Sequences, FiniteSets, TLC

VARIABLES
    construction_finished, \* self.__construction_finished
    capacity,              \* self.capacity (0 while the attribute is not set)
    phase,                 \* "none": __init__ not called; "partial": __init__ raised;
                           \* "live": __init__ returned
    configured,            \* GPIO: the pins set up as outputs and not cleaned up
    level,                 \* GPIO: the level last written to each pin
    trace,                 \* the GPIO and sleep calls of the last method call, in order
    raised,                \* the exception the last method call ended with, or "none"
    last,                  \* the last method call: [op, arg]
    ret,                   \* the value the last method call returned (0 for None)
    del_calls,             \* history: calls of __del__
    teardowns,             \* history: calls of __del__ that ran the teardown to its end
    slaves,                \* history: the num_of_slaves given to __init__
    stage,                 \* hardware: the content of the chain's shift stage
    latched,               \* hardware: the pattern latched at the chain's outputs
    again                  \* history: the last call repeated the call before it (clear
                           \* after clear, write_data after write_data), and both returned

vars == <<construction_finished, capacity, phase, configured, level, trace,
          raised, last, ret, del_calls, teardowns, slaves, stage, latched, again>>

\* ------------------------------------------------------------------ bounds
MaxSlaves == 0      \* num_of_slaves is drawn from -1 .. MaxSlaves, and True (one slave)
MaxData == 1        \* data is drawn from -MaxData .. MaxData and around 2^capacity
MaxFault == 2       \* the GPIO call of clear or write_data that raises: 1 .. MaxFault, 0 for none
MaxDestroy == 2     \* calls of __del__

\* --------------------------------------------------------------- the pins
\* self.ports = PortStruct(si, sck, rck, sclr): the four pins in the order of
\* the namedtuple's fields.
Ports == <<"si", "clk", "rck", "sclr">>

PinSet == {Ports[i] : i \in 1..Len(Ports)}

\* ---------------------------------------------------------------- calls
\* One call of the GPIO module or of time.sleep; ok says whether it returned.
Call(c, pins, val) == [call |-> c, pins |-> pins, val |-> val, ok |-> TRUE]

GpioSetup(pin)        == Call("setup", <<pin>>, "OUT")
GpioOutput(pin, val)  == Call("output", <<pin>>, val)
GpioOutputAll(val)    == Call("output", Ports, val)
GpioCleanup(pins)     == Call("cleanup", pins, "-")
Sleep                 == Call("sleep", <<>>, "0.01")

Failed(c) == [c EXCEPT !.ok = FALSE]

\* The GPIO calls of `prog`: a sleep does not raise.
GpioCalls(prog) == {i \in 1..Len(prog) : prog[i].call # "sleep"}

\* The calls of `prog` that are made when its f-th GPIO call raises (f = 0, or
\* f beyond the last GPIO call: none raises): the calls before it, and it.
Run(prog, f) ==
    LET gpio == GpioCalls(prog)
    IN  IF f = 0 \/ f > Cardinality(gpio) THEN prog
        ELSE LET k == CHOOSE i \in gpio : Cardinality({j \in gpio : j <= i}) = f
             IN  SubSeq(prog, 1, k - 1) \o <<Failed(prog[k])>>

HasFailure(tr) == \E i \in 1..Len(tr) : ~tr[i].ok

\* The exception a failed GPIO call of `tr` raises.
ErrorOf(tr) ==
    IF ~HasFailure(tr) THEN "none"
    ELSE LET i == CHOOSE j \in 1..Len(tr) : ~tr[j].ok
         IN  tr[i].call \o "_error"

\* The pins a call names.
PinsOf(c) == {c.pins[k] : k \in 1..Len(c.pins)}

\* The last call of `tr` among `calls` that returned and names pin p (0: none).
LastOn(tr, p, calls) ==
    LET hits == {i \in 1..Len(tr) : tr[i].ok /\ tr[i].call \in calls /\ p \in PinsOf(tr[i])}
    IN  IF hits = {} THEN 0 ELSE CHOOSE i \in hits : \A j \in hits : j <= i

\* GPIO: the level of each pin after the calls of `tr`: the last one written.
LevelAfter(lv, tr) ==
    [p \in PinSet |->
        LET i == LastOn(tr, p, {"output"}) IN IF i = 0 THEN lv[p] ELSE tr[i].val]

\* GPIO: the pins configured after the calls of `tr`: set up, and not cleaned up since.
ConfiguredAfter(cf, tr) ==
    {p \in PinSet :
        LET i == LastOn(tr, p, {"setup", "cleanup"})
        IN  IF i = 0 THEN p \in cf ELSE tr[i].call = "setup"}

\* ------------------------------------------------------------ the hardware
\* The register chain the pins drive (74HC595): while the clear pin is low the
\* shift stage is zero; a rising edge of the shift clock shifts the level of
\* si in; a rising edge of the latch clock copies the shift stage to the
\* outputs.  hw is [lv, stage, latched], `bits` the width of the chain.
HwStep(hw, c, bits) ==
    IF c.call # "output" \/ ~c.ok THEN hw
    ELSE LET to(p) == IF p \in PinsOf(c) THEN c.val ELSE hw.lv[p]
             rises(p) == hw.lv[p] = "LOW" /\ to(p) = "HIGH"
         IN  [lv |-> [si |-> to("si"), clk |-> to("clk"), rck |-> to("rck"),
                      sclr |-> to("sclr")],
              stage |-> IF to("sclr") = "LOW" THEN 0
                        ELSE IF rises("clk")
                             THEN (2 * hw.stage + (IF to("si") = "HIGH" THEN 1 ELSE 0))
                                  % (2 ^ bits)
                             ELSE hw.stage,
              latched |-> IF rises("rck") THEN hw.stage ELSE hw.latched]

\* The hardware after the calls lo .. hi of `tr`: after the first half of
\* them, then after the second (stage is never negative: the test only makes
\* the first half be computed first).
RECURSIVE HwAfter(_, _, _, _, _)
HwAfter(hw, tr, lo, hi, bits) ==
    IF lo > hi THEN hw
    ELSE IF lo = hi THEN HwStep(hw, tr[lo], bits)
    ELSE LET half == HwAfter(hw, tr, lo, (lo + hi) \div 2, bits)
         IN  IF half.stage >= 0
             THEN HwAfter(half, tr, ((lo + hi) \div 2) + 1, hi, bits)
             ELSE half

\* ------------------------------------------------------- integer operators
\* A Python int has no width: it is modelled in two's complement as its low
\* bits, least significant first, and the bit that extends it without end
\* (neg: all higher bits are 1).
RECURSIVE LowBits(_)
LowBits(n) ==
    IF n = 0 \/ n = 0 - 1 THEN <<>>
    ELSE <<n % 2>> \o LowBits((n - (n % 2)) \div 2)

PyInt(n) == [neg |-> n < 0, bits |-> LowBits(n)]

BitOf(x, i) == IF i <= Len(x.bits) THEN x.bits[i] ELSE IF x.neg THEN 1 ELSE 0

\* Python's x & y
BitAnd(x, y) ==
    LET n == IF Len(x.bits) >= Len(y.bits) THEN Len(x.bits) ELSE Len(y.bits)
    IN  [neg |-> x.neg /\ y.neg, bits |-> [i \in 1..n |-> BitOf(x, i) * BitOf(y, i)]]

\* Python's truth value of an int: it is not 0.
Truthy(x) == x.neg \/ \E i \in 1..Len(x.bits) : x.bits[i] = 1

\* Python's 1 << n.
ShiftOne(n) == 2 ^ n

\* data <<= 1
ShiftLeftNone(x) == x

ShiftLeft(x) == [x EXCEPT !.bits = <<0>> \o @]

\* msb_mask = 1 << (self.capacity - 1)
MsbMask(cap) == PyInt(ShiftOne(cap - 1))

\* isinstance(num_of_slaves, int): bool is a subclass of int.
IsInstanceInt(n) == n.kind \in {"int", "bool"}

\* --------------------------------------------------------- method bodies
\* A method body is [prog, exc]: the GPIO and sleep calls it makes in order
\* when none of them raises, and the exception it raises itself after them
\* ("none": it returns).

\* __pulse(pin)
pulse_NoFall(pin) ==
    <<GpioOutput(pin, "LOW"), Sleep, GpioOutput(pin, "HIGH"), Sleep>>

pulse(pin) ==
    <<GpioOutput(pin, "LOW"), Sleep, GpioOutput(pin, "HIGH"), Sleep,
      GpioOutput(pin, "LOW")>>

\* clear()
clear_Inverted == <<GpioOutput("sclr", "HIGH"), Sleep, GpioOutput("sclr", "LOW")>>

clear_LatchFirst ==
    pulse("rck") \o <<GpioOutput("sclr", "LOW"), Sleep, GpioOutput("sclr", "HIGH")>>

clear_WithLatch ==
    <<GpioOutput("sclr", "LOW"), Sleep, GpioOutput("sclr", "HIGH")>> \o pulse("rck")

clear == <<GpioOutput("sclr", "LOW"), Sleep, GpioOutput("sclr", "HIGH")>>

\* __set_zero()
set_zero == <<GpioOutputAll("LOW")>>

\* The loop of write_data from iteration i on: for i in range(0, self.capacity)
RECURSIVE ShiftLoop_ClockFirst(_, _, _, _)
ShiftLoop_ClockFirst(data, msb_mask, cap, i) ==
    IF i >= cap THEN <<>>
    ELSE pulse("clk")
         \o <<GpioOutput("si", IF Truthy(BitAnd(data, msb_mask)) THEN "HIGH" ELSE "LOW")>>
         \o ShiftLoop_ClockFirst(ShiftLeft(data), msb_mask, cap, i + 1)

RECURSIVE ShiftLoop(_, _, _, _)
ShiftLoop(data, msb_mask, cap, i) ==
    IF i >= cap THEN <<>>
    ELSE <<GpioOutput("si", IF Truthy(BitAnd(data, msb_mask)) THEN "HIGH" ELSE "LOW")>>
         \o pulse("clk")
         \o ShiftLoop(ShiftLeft(data), msb_mask, cap, i + 1)

\* write_data(data)
write_data_LateCheck(data, cap) ==
    IF data >= ShiftOne(cap)
    THEN [prog |-> clear, exc |-> "ValueError"]
    ELSE [prog |-> clear \o ShiftLoop(PyInt(data), MsbMask(cap), cap, 0) \o pulse("rck"),
          exc |-> "none"]

write_data_LatchFirst(data, cap) ==
    IF data >= ShiftOne(cap)
    THEN [prog |-> <<>>, exc |-> "ValueError"]
    ELSE [prog |-> clear \o pulse("rck") \o ShiftLoop(PyInt(data), MsbMask(cap), cap, 0),
          exc |-> "none"]

write_data_NoClear(data, cap) ==
    IF data >= ShiftOne(cap)
    THEN [prog |-> <<>>, exc |-> "ValueError"]
    ELSE [prog |-> ShiftLoop(PyInt(data), MsbMask(cap), cap, 0) \o pulse("rck"),
          exc |-> "none"]

write_data_ShortLoop(data, cap) ==
    IF data >= ShiftOne(cap)
    THEN [prog |-> <<>>, exc |-> "ValueError"]
    ELSE [prog |-> clear \o ShiftLoop(PyInt(data), MsbMask(cap), cap, 1) \o pulse("rck"),
          exc |-> "none"]

write_data(data, cap) ==
    IF data >= ShiftOne(cap)
    THEN [prog |-> <<>>, exc |-> "ValueError"]
    ELSE [prog |-> clear \o ShiftLoop(PyInt(data), MsbMask(cap), cap, 0) \o pulse("rck"),
          exc |-> "none"]

\* __del__()
del_NoLatch(finished) ==
    IF finished
    THEN [prog |-> clear \o set_zero \o <<GpioCleanup(Ports)>>, exc |-> "none"]
    ELSE [prog |-> <<>>, exc |-> "none"]

del_NoGuard(finished) ==
    [prog |-> clear \o pulse("rck") \o set_zero \o <<GpioCleanup(Ports)>>,
     exc |-> "none"]

del(finished) ==
    IF finished
    THEN [prog |-> clear \o pulse("rck") \o set_zero \o <<GpioCleanup(Ports)>>,
          exc |-> "none"]
    ELSE [prog |-> <<>>, exc |-> "none"]

\* What a method body does when its f-th GPIO call raises (0: none does).
Outcome(body, f) ==
    LET tr == Run(body.prog, f)
    IN  [trace |-> tr, raised |-> IF HasFailure(tr) THEN ErrorOf(tr) ELSE body.exc]

\* __setup_ports() from index i on (0-based, as in the source).  f: the setup
\* call that raises (1-based, 0 for none); g: the cleanup call of the except
\* clause raises too.
RECURSIVE setup_ports_CleanAll(_, _, _)
setup_ports_CleanAll(i, f, g) ==
    IF i >= Len(Ports) THEN [trace |-> <<>>, raised |-> "none"]
    ELSE IF f = i + 1
         THEN [trace |-> <<Failed(GpioSetup(Ports[i + 1]))>>
                         \o (IF i # 0
                             THEN <<[GpioCleanup(Ports) EXCEPT !.ok = ~g]>>
                             ELSE <<>>),
               raised |-> IF i # 0 /\ g THEN "cleanup_error" ELSE "setup_error"]
         ELSE LET rest == setup_ports_CleanAll(i + 1, f, g)
              IN  [trace |-> <<GpioSetup(Ports[i + 1])>> \o rest.trace,
                   raised |-> rest.raised]

RECURSIVE setup_ports(_, _, _)
setup_ports(i, f, g) ==
    IF i >= Len(Ports) THEN [trace |-> <<>>, raised |-> "none"]
    ELSE IF f = i + 1
         THEN [trace |-> <<Failed(GpioSetup(Ports[i + 1]))>>
                         \o (IF i # 0
                             THEN <<[GpioCleanup(SubSeq(Ports, 1, i)) EXCEPT !.ok = ~g]>>
                             ELSE <<>>),
               raised |-> IF i # 0 /\ g THEN "cleanup_error" ELSE "setup_error"]
         ELSE LET rest == setup_ports(i + 1, f, g)
              IN  [trace |-> <<GpioSetup(Ports[i + 1])>> \o rest.trace,
                   raised |-> rest.raised]

\* __init__(si, sck, rck, sclr, num_of_slaves)
init_LateCheck(n, f, g) ==
    LET s == setup_ports(0, f, g)
    IN  IF s.raised # "none"
        THEN [finished |-> FALSE, capacity |-> 0, trace |-> s.trace, raised |-> s.raised]
        ELSE IF ~IsInstanceInt(n) \/ n.val < 0
        THEN [finished |-> FALSE, capacity |-> 0, trace |-> s.trace,
              raised |-> "ValueError"]
        ELSE [finished |-> TRUE, capacity |-> (n.val + 1) * 8, trace |-> s.trace,
              raised |-> "none"]

init_SlavesPlusTwo(n, f, g) ==
    IF ~IsInstanceInt(n)
    THEN [finished |-> FALSE, capacity |-> 0, trace |-> <<>>, raised |-> "ValueError"]
    ELSE IF n.val < 0
    THEN [finished |-> FALSE, capacity |-> 0, trace |-> <<>>, raised |-> "ValueError"]
    ELSE LET s == setup_ports(0, f, g)
         IN  [finished |-> s.raised = "none", capacity |-> (n.val + 2) * 8,
              trace |-> s.trace, raised |-> s.raised]

init(n, f, g) ==
    IF ~IsInstanceInt(n)
    THEN [finished |-> FALSE, capacity |-> 0, trace |-> <<>>, raised |-> "ValueError"]
    ELSE IF n.val < 0
    THEN [finished |-> FALSE, capacity |-> 0, trace |-> <<>>, raised |-> "ValueError"]
    ELSE LET s == setup_ports(0, f, g)
         IN  [finished |-> s.raised = "none", capacity |-> (n.val + 1) * 8,
              trace |-> s.trace, raised |-> s.raised]

\* ---------------------------------------------------------------- inputs
SlaveInputs ==
    {[kind |-> "int", val |-> v] : v \in (0 - 1)..MaxSlaves}
    \cup {[kind |-> "bool", val |-> 1], [kind |-> "float", val |-> 1],
          [kind |-> "str", val |-> 0]}

DataInputs(cap) ==
    ((0 - MaxData)..MaxData)
    \cup {ShiftOne(cap - 1), ShiftOne(cap) - 1, ShiftOne(cap), ShiftOne(cap) + 1}

Faults == 0..MaxFault

\* ------------------------------------------------------------ the machine
Init ==
    /\ construction_finished = FALSE
    /\ capacity = 0
    /\ phase = "none"
    /\ configured = {}
    /\ level = [p \in PinSet |-> "LOW"]
    /\ trace = <<>>
    /\ raised = "none"
    /\ last = [op |-> "none", kind |-> "int", arg |-> 0]
    /\ ret = 0
    /\ del_calls = 0
    /\ teardowns = 0
    /\ slaves = 0
    /\ stage = 0
    /\ latched \in 0..1
    /\ again = FALSE

\* The GPIO state after the calls of the method.
Gpio(tr) ==
    /\ configured' = ConfiguredAfter(configured, tr)
    /\ level' = LevelAfter(level, tr)

\* The hardware after the calls of the method, on a chain of `bits` bits.
Hardware(tr, bits) ==
    \E hw \in {HwAfter([lv |-> level, stage |-> stage, latched |-> latched],
                        tr, 1, Len(tr), bits)} :
        /\ stage' = hw.stage
        /\ latched' = hw.latched

\* ShiftRegister(si, sck, rck, sclr, num_of_slaves)
Construct(n, f, g) ==
    /\ phase = "none"
    /\ \E r \in {init(n, f, g)} :
           /\ construction_finished' = r.finished
           /\ capacity' = r.capacity
           /\ phase' = IF r.raised = "none" THEN "live" ELSE "partial"
           /\ trace' = r.trace
           /\ raised' = r.raised
           /\ Gpio(r.trace)
           /\ Hardware(r.trace, r.capacity)
    /\ last' = [op |-> "init", kind |-> n.kind, arg |-> n.val]
    /\ ret' = 0
    /\ slaves' = n.val
    /\ again' = FALSE
    /\ UNCHANGED <<del_calls, teardowns>>

\* __del__(): by the garbage collector, or called on the object.
Destroy(f) ==
    /\ phase # "none"
    /\ del_calls < MaxDestroy
    /\ \E r \in {Outcome(del(construction_finished), f)} :
           /\ trace' = r.trace
           /\ raised' = r.raised
           /\ Gpio(r.trace)
           /\ Hardware(r.trace, capacity)
           /\ teardowns' = IF construction_finished /\ r.raised = "none"
                           THEN teardowns + 1 ELSE teardowns
    /\ del_calls' = del_calls + 1
    /\ last' = [op |-> "del", kind |-> "int", arg |-> 0]
    /\ ret' = 0
    /\ again' = FALSE
    /\ UNCHANGED <<construction_finished, capacity, phase, slaves>>

\* get_capacity()
Capacity ==
    /\ phase = "live"
    /\ ret' = capacity
    /\ trace' = <<>>
    /\ raised' = "none"
    /\ last' = [op |-> "get_capacity", kind |-> "int", arg |-> 0]
    /\ again' = FALSE
    /\ UNCHANGED <<construction_finished, capacity, phase, configured, level,
                   del_calls, teardowns, slaves, stage, latched>>

\* clear()
Clear(f) ==
    /\ phase = "live"
    /\ \E r \in {Outcome([prog |-> clear, exc |-> "none"], f)} :
           /\ trace' = r.trace
           /\ raised' = r.raised
           /\ Gpio(r.trace)
           /\ Hardware(r.trace, capacity)
           /\ again' = (last.op = "clear" /\ raised = "none" /\ r.raised = "none")
    /\ last' = [op |-> "clear", kind |-> "int", arg |-> 0]
    /\ ret' = 0
    /\ UNCHANGED <<construction_finished, capacity, phase, del_calls, teardowns,
                   slaves>>

\* write_data(data)
Write(data, f) ==
    /\ phase = "live"
    /\ \E r \in {Outcome(write_data(data, capacity), f)} :
           /\ trace' = r.trace
           /\ raised' = r.raised
           /\ Gpio(r.trace)
           /\ Hardware(r.trace, capacity)
           /\ again' = (last.op = "write_data" /\ raised = "none" /\ r.raised = "none")
    /\ last' = [op |-> "write_data", kind |-> "int", arg |-> data]
    /\ ret' = 0
    /\ UNCHANGED <<construction_finished, capacity, phase, del_calls, teardowns,
                   slaves>>

\* write_data on a constructed object, with any of the inputs.
WriteCall ==
    /\ phase = "live"
    /\ \E data \in DataInputs(capacity), f \in Faults : Write(data, f)

Next ==
    \/ \E n \in SlaveInputs, f \in 0..Len(Ports), g \in BOOLEAN : Construct(n, f, g)
    \/ \E f \in 0..Cardinality(GpioCalls(del(TRUE).prog)) : Destroy(f)
    \/ Capacity
    \/ \E f \in Faults : Clear(f)
    \/ WriteCall

Spec == Init /\ [][Next]_vars

\* ------------------------------------------------ reading a method's trace
\* The calls of `tr` that returned and wrote a level to pin p (alone or with others).
OutputsOn(tr, p) ==
    {i \in 1..Len(tr) : tr[i].call = "output" /\ tr[i].ok /\ p \in PinsOf(tr[i])}

\* The output on p next before, and next after, position i (0: none).
PrevOn(tr, i, p) ==
    LET before == {j \in OutputsOn(tr, p) : j < i}
    IN  IF before = {} THEN 0 ELSE CHOOSE j \in before : \A k \in before : k <= j

NextOn(tr, i, p) ==
    LET after == {j \in OutputsOn(tr, p) : j > i}
    IN  IF after = {} THEN 0 ELSE CHOOSE j \in after : \A k \in after : j <= k

\* The pulses of pin p: the positions where p is driven high, having been
\* driven low before, and being driven low next.
Pulses(tr, p) ==
    {i \in OutputsOn(tr, p) :
        /\ tr[i].val = "HIGH"
        /\ PrevOn(tr, i, p) # 0 /\ tr[PrevOn(tr, i, p)].val = "LOW"
        /\ NextOn(tr, i, p) # 0 /\ tr[NextOn(tr, i, p)].val = "LOW"}

\* Bit j of a non-negative integer.
BitAt(n, j) == (n \div (2 ^ j)) % 2

\* The last call was a write_data that passed its check and met no GPIO error.
WriteDone == last.op = "write_data" /\ raised = "none"

\* ------------------------------------------------------------------ claims

\* C1: a write_data(data) with 0 <= data < 2^capacity that returns makes
\* exactly `capacity` pulses of the shift clock, and at the k-th of them
\* (k = 0 .. capacity-1) the level last written to si is HIGH exactly when bit
\* capacity-1-k of data is 1: the most significant bit goes first.
C1_MsbFirst ==
    (WriteDone /\ 0 <= last.arg /\ last.arg < 2 ^ capacity) =>
        LET P == Pulses(trace, "clk")
        IN  /\ Cardinality(P) = capacity
            /\ \A i \in P :
                 LET k == Cardinality({j \in P : j < i})
                     s == PrevOn(trace, i, "si")
                 IN  /\ s # 0
                     /\ (trace[s].val = "HIGH") <=> (BitAt(last.arg, capacity - 1 - k) = 1)

\* write_data(1) returned on an 8-bit register: si is HIGH at the last pulse only.
C1_Witness ==
    /\ WriteDone /\ last.arg = 1 /\ capacity = 8
    /\ Cardinality(Pulses(trace, "clk")) = 8
    /\ level["si"] = "HIGH"

\* C2: in a write_data that passes its check and returns, the clear pin is
\* driven low and then high before the shift clock is touched, then come the
\* `capacity` pulses of the shift clock, and the latch clock is touched only
\* after the last of them, for exactly one pulse.
C2_ClearShiftLatch ==
    WriteDone =>
        LET c == OutputsOn(trace, "sclr")
            k == OutputsOn(trace, "clk")
            r == OutputsOn(trace, "rck")
        IN  /\ Cardinality(c) = 2
            /\ \A i \in c : (PrevOn(trace, i, "sclr") = 0) <=> (trace[i].val = "LOW")
            /\ \A i \in c, j \in k : i < j
            /\ Cardinality(Pulses(trace, "clk")) = capacity
            /\ \A j \in k, i \in r : j < i
            /\ Cardinality(Pulses(trace, "rck")) = 1
            /\ Cardinality({i \in r : trace[i].val = "HIGH"}) = 1

\* A 16-bit write_data returned: 16 shift pulses, then the latch pulse.
C2_Witness ==
    /\ WriteDone /\ capacity = 16
    /\ Cardinality(Pulses(trace, "clk")) = 16
    /\ Cardinality(Pulses(trace, "rck")) = 1

\* C3: a write_data(data) with data >= 2^capacity raises ValueError and makes
\* no GPIO call: the pins, their levels and the driver's fields are after the
\* call what they were before it.
C3_RejectedWriteTouchesNothing ==
    [][(last'.op = "write_data" /\ last'.arg >= 2 ^ capacity) =>
          /\ raised' = "ValueError"
          /\ trace' = <<>>
          /\ level' = level
          /\ configured' = configured
          /\ capacity' = capacity
          /\ construction_finished' = construction_finished]_vars

\* A write_data was rejected for its width with the clear pin left HIGH by an
\* earlier call.
C3_Witness ==
    /\ last.op = "write_data" /\ last.arg >= 2 ^ capacity
    /\ raised = "ValueError"
    /\ level["sclr"] = "HIGH"

\* C4: write_data shifts only data with 0 <= data < 2^capacity into the
\* register: any other data, a negative one included, is rejected with
\* ValueError before a GPIO call is made.
C4_OnlyDataInRange ==
    (last.op = "write_data" /\ ~(0 <= last.arg /\ last.arg < 2 ^ capacity)) =>
        (raised = "ValueError" /\ trace = <<>>)

\* The setup calls of `tr`, and its cleanup calls.
Setups(tr) == {i \in 1..Len(tr) : tr[i].call = "setup"}

Cleanups(tr) == {i \in 1..Len(tr) : tr[i].call = "cleanup"}

\* C5: __init__ sets the pins up in the order si, clk, rck, sclr.  When the
\* set-up of the pin at index i (0-based) raises, the pins after it are not
\* set up, one cleanup call names exactly the pins at indices [0, i) (none is
\* made for i = 0), the set-up's error is raised and the object never is
\* ready.  (The case is the one where the set-up is the call that fails: a
\* cleanup that raises in its turn is another failure.)
C5_SetupRollback ==
    (last.op = "init" /\ raised # "ValueError"
       /\ \A i \in Cleanups(trace) : trace[i].ok) =>
        LET S == Setups(trace)
            bad == {i \in S : ~trace[i].ok}
            n == Cardinality({i \in S : trace[i].ok})
        IN  /\ \A i \in S : trace[i].pins = <<Ports[Cardinality({j \in S : j <= i})]>>
            /\ Cardinality(bad) <= 1
            /\ bad = {} =>
                 /\ n = Len(Ports) /\ Cleanups(trace) = {}
                 /\ raised = "none" /\ phase = "live" /\ configured = PinSet
            /\ bad # {} =>
                 /\ \A i \in S, b \in bad : i <= b
                 /\ Cardinality(Cleanups(trace)) = (IF n = 0 THEN 0 ELSE 1)
                 /\ \A i \in Cleanups(trace) :
                      /\ trace[i].pins = SubSeq(Ports, 1, n)
                      /\ \A b \in bad : b < i
                 /\ raised = "setup_error"
                 /\ ~construction_finished /\ phase = "partial"
                 /\ configured = {}

\* The set-up of the third pin raised: the first two pins were cleaned up.
C5_Witness ==
    /\ last.op = "init" /\ raised = "setup_error"
    /\ Cardinality(Setups(trace)) = 3
    /\ \E i \in Cleanups(trace) : trace[i].ok /\ trace[i].pins = <<"si", "clk">>

\* C6: a __del__ of a constructed object that meets no GPIO error makes, in
\* this order and whatever calls came before it: the clear sequence once, one
\* pulse of the latch clock, one output of LOW to the four pins together, one
\* cleanup of the four pins; and nothing else.
C6_TeardownSequence ==
    (last.op = "del" /\ construction_finished /\ raised = "none") =>
        LET c == {i \in OutputsOn(trace, "sclr") : trace[i].pins = <<"sclr">>}
            r == {i \in OutputsOn(trace, "rck") : trace[i].pins = <<"rck">>}
            z == {i \in 1..Len(trace) : trace[i].call = "output" /\ Len(trace[i].pins) > 1}
            u == Cleanups(trace)
        IN  /\ Cardinality(c) = 2
            /\ \A i \in c : (\A j \in c : i <= j) <=> (trace[i].val = "LOW")
            /\ Cardinality(r) = 3
            /\ Cardinality({i \in Pulses(trace, "rck") : i \in r}) = 1
            /\ Cardinality(z) = 1
            /\ \A i \in z : PinsOf(trace[i]) = PinSet /\ trace[i].val = "LOW"
            /\ Cardinality(u) = 1
            /\ \A i \in u : PinsOf(trace[i]) = PinSet /\ i = Len(trace)
            /\ \A i \in c, j \in r : i < j
            /\ \A i \in r, j \in z : i < j
            /\ \A i \in z, j \in u : i < j
            /\ \A i \in 1..Len(trace) :
                 trace[i].call = "sleep" \/ i \in c \cup r \cup z \cup u
            /\ configured = {}
            /\ \A p \in PinSet : level[p] = "LOW"

\* The first __del__ of a constructed object ran to its end.
C6_Witness ==
    /\ last.op = "del" /\ construction_finished /\ raised = "none"
    /\ del_calls = 1 /\ teardowns = 1
    /\ Len(trace) > 0

\* C7: a __del__ of an object whose __init__ raised (for its argument, or for
\* a pin set-up at any index) makes no GPIO call and no sleep at all.
C7_NoTeardownAfterFailedInit ==
    (last.op = "del" /\ phase = "partial") => (trace = <<>> /\ raised = "none")

\* __del__ ran on an object whose __init__ raised in the set-up of a pin.
C7_Witness ==
    /\ last.op = "del" /\ phase = "partial" /\ capacity = 8
    /\ trace = <<>>

\* C8: over the life of one object the teardown (clear, latch pulse, all pins
\* low, cleanup) is run at most once: a __del__ after it does not run it again.
C8_TeardownAtMostOnce == teardowns <= 1

\* C9: __del__ never raises and is best-effort: whichever GPIO call of the
\* teardown fails, __del__ returns normally and has still asked for the
\* release of the pins.
C9_DestroyBestEffort ==
    (last.op = "del" /\ construction_finished) =>
        /\ raised = "none"
        /\ \E i \in Cleanups(trace) : PinsOf(trace[i]) = PinSet

\* C10: __init__ with a negative num_of_slaves, or one that is no integer,
\* raises ValueError before any pin is set up: no GPIO call is made and no
\* pin is configured.
C10_BadSlavesNoPins ==
    (last.op = "init" /\ (last.kind \in {"float", "str"} \/ last.arg < 0)) =>
        /\ raised = "ValueError"
        /\ trace = <<>>
        /\ configured = {}
        /\ ~construction_finished
        /\ phase = "partial"

\* __init__ was given -1 for num_of_slaves.
C10_Witness ==
    /\ last.op = "init" /\ last.kind = "int" /\ last.arg = 0 - 1
    /\ raised = "ValueError" /\ trace = <<>>

\* C11: once a __del__ has run the teardown to its end (the pins are
\* released), a clear or a write_data raises an error and asks for no level
\* on any pin: its trace holds no GPIO.output call.
C11_NoOutputAfterRelease ==
    (teardowns >= 1 /\ last.op \in {"clear", "write_data"}) =>
        /\ raised # "none"
        /\ \A i \in 1..Len(trace) : trace[i].call # "output"

\* The calls a write_data(data) makes on a register of `cap` bits that has
\* never been written, position by position: sclr low and high, then for each
\* bit from the most significant one the level of si and a pulse of the shift
\* clock, then a pulse of the latch clock.
FreshWrite(data, cap) ==
    LET Out(p, v) == [call |-> "output", pins |-> <<p>>, val |-> v, ok |-> TRUE]
        Wait == [call |-> "sleep", pins |-> <<>>, val |-> "0.01", ok |-> TRUE]
        Step(p, r) == IF r = 1 THEN Out(p, "LOW") ELSE IF r = 2 THEN Wait
                      ELSE IF r = 3 THEN Out(p, "HIGH") ELSE IF r = 4 THEN Wait
                      ELSE Out(p, "LOW")
    IN  [i \in 1..(6 * cap + 8) |->
            IF i = 1 THEN Out("sclr", "LOW") ELSE IF i = 2 THEN Wait
            ELSE IF i = 3 THEN Out("sclr", "HIGH")
            ELSE IF i <= 6 * cap + 3
            THEN IF (i - 4) % 6 = 0
                 THEN Out("si", IF BitAt(data, cap - 1 - ((i - 4) \div 6)) = 1
                                THEN "HIGH" ELSE "LOW")
                 ELSE Step("clk", (i - 4) % 6)
            ELSE Step("rck", i - (6 * cap + 3))]

\* C12: with the hardware modelled, whatever calls came before it (other
\* write_data calls, and what they left in the register and on the pins), a
\* write_data(data) with 0 <= data < 2^capacity that returns on a ready driver
\* leaves `data` latched at the outputs, and the calls it makes are those of a
\* first write of `data`.
C12_LastWriteWins ==
    (WriteDone /\ configured = PinSet /\ 0 <= last.arg /\ last.arg < 2 ^ capacity) =>
        /\ latched = last.arg
        /\ trace = FreshWrite(last.arg, capacity)

\* write_data(1) returned right after another write_data had returned.
C12_Witness ==
    /\ WriteDone /\ again /\ configured = PinSet
    /\ last.arg = 1 /\ latched = 1
    /\ Len(trace) = 6 * capacity + 8

\* C13: whatever calls came before it (write_data calls that returned, were
\* rejected or met a GPIO error, clear, get_capacity), get_capacity() returns
\* (num_of_slaves + 1) * 8 for the num_of_slaves >= 0 the object was built
\* with, which is at least 8; it makes no GPIO call and raises nothing.
C13_CapacityFixed ==
    (last.op = "get_capacity") =>
        /\ slaves >= 0
        /\ ret = (slaves + 1) * 8
        /\ ret >= 8
        /\ capacity = ret
        /\ trace = <<>>
        /\ raised = "none"

\* get_capacity() returned 16 after a write_data had filled the 16 bits with ones.
C13_Witness ==
    /\ last.op = "get_capacity" /\ ret = 16 /\ slaves = 1
    /\ latched = (2 ^ 16) - 1
    /\ level["sclr"] = "HIGH"

\* C14: a clear() that returns writes a level to the clear pin only, LOW and
\* then HIGH, and leaves it HIGH; the levels of si, of the shift clock and of
\* the latch clock are after it what they were before it, no pulse of the
\* latch clock is made, and the pattern latched at the outputs is unchanged
\* (the shift stage is zero).
C14_ClearOnlyClearPin ==
    [][(last'.op = "clear" /\ raised' = "none") =>
          /\ \A i \in 1..Len(trace') :
               trace'[i].call = "sleep"
               \/ (trace'[i].call = "output" /\ trace'[i].pins = <<"sclr">>)
          /\ Cardinality(OutputsOn(trace', "sclr")) = 2
          /\ \A i \in OutputsOn(trace', "sclr") :
               (PrevOn(trace', i, "sclr") = 0) <=> (trace'[i].val = "LOW")
          /\ level'["sclr"] = "HIGH"
          /\ \A p \in PinSet \ {"sclr"} : level'[p] = level[p]
          /\ Pulses(trace', "rck") = {}
          /\ latched' = latched
          /\ stage' = 0]_vars

\* clear() returned on a register showing all ones: the shift stage is zero,
\* the outputs and si are as the write before it left them.
C14_Witness ==
    /\ last.op = "clear" /\ raised = "none"
    /\ latched = (2 ^ capacity) - 1 /\ stage = 0
    /\ level["si"] = "HIGH" /\ level["sclr"] = "HIGH"

\* C15: a clear() that returns right after a clear() that returned changes
\* nothing: the pin levels, the configured pins, the shift stage and the
\* latched pattern after the second are those after the first (and so, step
\* by step, after any number of them).
C15_ClearIdempotent ==
    [][(last.op = "clear" /\ raised = "none" /\ last'.op = "clear" /\ raised' = "none") =>
          /\ level' = level
          /\ configured' = configured
          /\ stage' = stage
          /\ latched' = latched
          /\ trace' = trace]_vars

\* A second clear() in a row returned on a register that shows a pattern.
C15_Witness ==
    /\ again /\ last.op = "clear" /\ raised = "none"
    /\ latched # 0 /\ stage = 0
    /\ level["sclr"] = "HIGH"

\* C16: every GPIO.output call a method makes names pins of the driver only
\* and is made while all four of them are configured as outputs: they were
\* when the method began, or were set up by it, and have not been cleaned up
\* since.
C16_OutputOnlyWhenReady ==
    [][\A i \in 1..Len(trace') :
          (trace'[i].call = "output") =>
              /\ PinsOf(trace'[i]) \subseteq PinSet
              /\ ConfiguredAfter(configured, SubSeq(trace', 1, i - 1)) = PinSet]_vars

\* The number of times the calls of `tr` change the level of pin p, which is
\* at lv[p] before them: the outputs on p that write another level than the
\* one p has.
ChangesOn(lv, tr, p) ==
    LET OnP(c) == c.call = "output" /\ c.ok /\ p \in PinsOf(c)
        w == SelectSeq(tr, OnP)
    IN  Cardinality({k \in 1..Len(w) :
                       w[k].val # (IF k = 1 THEN lv[p] ELSE w[k - 1].val)})

\* The number of pin level changes the calls of `tr` cause.
Changes(lv, tr) ==
    ChangesOn(lv, tr, "si") + ChangesOn(lv, tr, "clk")
    + ChangesOn(lv, tr, "rck") + ChangesOn(lv, tr, "sclr")

\* The number of level changes of si when the `cap` bits of data are put on
\* it from the most significant one, si being at `first` before.
BitFlips(data, cap, first) ==
    Cardinality({k \in 0..(cap - 1) :
        BitAt(data, cap - 1 - k)
        # (IF k = 0 THEN (IF first = "HIGH" THEN 1 ELSE 0) ELSE BitAt(data, cap - k))})

\* C17 as stated: a write_data(data) with 0 <= data < 2^capacity that returns
\* changes pin levels capacity * 2 + c times with c the same for every data:
\* as many times as write_data(0) does from the same pin levels.
C17_ChangesDataIndependent ==
    [][(last'.op = "write_data" /\ raised' = "none"
          /\ 0 <= last'.arg /\ last'.arg < 2 ^ capacity) =>
          Changes(level, trace') = Changes(level, write_data(0, capacity).prog)]_vars

\* C17, amended: the shift clock and the latch clock, low before the call,
\* change capacity * 2 + 2 times whatever the data; the clear pin changes
\* twice when it was HIGH before and once when it was LOW; si changes once for
\* each bit, taken from the most significant one, that differs from the bit
\* before it (from the level si had, for the first): between 0 and capacity
\* times, depending on data.  The total is capacity * 2 + c with
\* 3 <= c <= capacity + 4, and c depends on data.
C17_ChangesByPin ==
    [][(last'.op = "write_data" /\ raised' = "none"
          /\ 0 <= last'.arg /\ last'.arg < 2 ^ capacity
          /\ level["clk"] = "LOW" /\ level["rck"] = "LOW") =>
          /\ ChangesOn(level, trace', "clk") = capacity * 2
          /\ ChangesOn(level, trace', "rck") = 2
          /\ ChangesOn(level, trace', "sclr") = (IF level["sclr"] = "HIGH" THEN 2 ELSE 1)
          /\ ChangesOn(level, trace', "si") = BitFlips(last'.arg, capacity, level["si"])
          /\ Changes(level, trace') >= capacity * 2 + 3
          /\ Changes(level, trace') <= capacity * 2 + capacity + 4]_vars

\* write_data(2^(capacity-1)) returned after another write_data: si went HIGH
\* for the first bit and LOW again for the second, two changes that
\* write_data(0) does not make.
C17_Witness ==
    /\ WriteDone /\ again /\ last.arg = 2 ^ (capacity - 1)
    /\ ChangesOn([p \in PinSet |-> "LOW"], trace, "si") = 2
    /\ ChangesOn([p \in PinSet |-> "LOW"], trace, "clk") = capacity * 2

\* Call i of `tr` writes level v to pin p alone, and returns.
Writes(tr, i, p, v) ==
    /\ i >= 1 /\ i <= Len(tr)
    /\ tr[i] = [call |-> "output", pins |-> <<p>>, val |-> v, ok |-> TRUE]

Sleeps(tr, i) == i >= 1 /\ i <= Len(tr) /\ tr[i].call = "sleep"

\* C18: in a write_data or a __del__ that returns, the shift clock and the
\* latch clock are written in pulses only: LOW, a sleep, HIGH, a sleep, LOW on
\* the same pin with no call on another pin in between, so that each pulse has
\* one rising edge and leaves the pin LOW.  After a write_data that returns
\* the shift clock and the latch clock are LOW.
C18_PulseShape ==
    (last.op \in {"write_data", "del"} /\ raised = "none") =>
        /\ \A p \in {"clk", "rck"} :
             \A i \in 1..Len(trace) :
                /\ Writes(trace, i, p, "HIGH") =>
                     /\ Writes(trace, i - 2, p, "LOW") /\ Sleeps(trace, i - 1)
                     /\ Sleeps(trace, i + 1) /\ Writes(trace, i + 2, p, "LOW")
                /\ Writes(trace, i, p, "LOW") =>
                     Writes(trace, i + 2, p, "HIGH") \/ Writes(trace, i - 2, p, "HIGH")
        /\ last.op = "write_data" =>
             /\ level["clk"] = "LOW" /\ level["rck"] = "LOW"
             /\ trace # <<>> =>
                  /\ Cardinality({i \in 1..Len(trace) : Writes(trace, i, "clk", "HIGH")})
                       = capacity
                  /\ Cardinality({i \in 1..Len(trace) : Writes(trace, i, "rck", "HIGH")}) = 1

\* A write_data of all ones returned on an 8-bit register: eight rising edges
\* of the shift clock, one of the latch clock, both clocks LOW.
C18_Witness ==
    /\ WriteDone /\ capacity = 8 /\ last.arg = (2 ^ 8) - 1
    /\ Cardinality({i \in 1..Len(trace) : Writes(trace, i, "clk", "HIGH")}) = 8
    /\ level["clk"] = "LOW" /\ level["rck"] = "LOW"

\* C19: in every write_data, whether it returns or is cut short by a GPIO
\* error, each HIGH written to the shift clock or to the latch clock comes
\* after the clear pin was written in the same call, and the level last
\* written to the clear pin is then HIGH: the register is not held in reset
\* at a rising edge.
C19_ClearHighAtEdges ==
    (last.op = "write_data") =>
        \A p \in {"clk", "rck"} :
            \A i \in OutputsOn(trace, p) :
                (trace[i].val = "HIGH") =>
                    /\ PrevOn(trace, i, "sclr") # 0
                    /\ trace[PrevOn(trace, i, "sclr")].val = "HIGH"

\* A 16-bit write_data of the top bit alone returned: 17 rising edges with
\* the clear pin HIGH, and the bit has reached the outputs.
C19_Witness ==
    /\ WriteDone /\ capacity = 16 /\ last.arg = 2 ^ 15
    /\ Cardinality({i \in OutputsOn(trace, "clk") \cup OutputsOn(trace, "rck") :
                      trace[i].val = "HIGH"}) = 17
    /\ level["sclr"] = "HIGH" /\ latched = 2 ^ 15

\* C20: every call that returns leaves the shift clock LOW, and in every
\* write_data si is written only while the shift clock is LOW: before the
\* shift clock is written in that call, right after a LOW was written to it,
\* or right after another write of si.  In a write_data(data) with
\* 0 <= data < 2^capacity that returns, si is written before each rising edge
\* of the shift clock and after the one before it, to the level of the bit
\* that edge shifts in.
C20_DataStableWhileClockHigh ==
    /\ (raised = "none") => (level["clk"] = "LOW")
    /\ (last.op = "write_data") =>
         LET OnDataOrClock(c) ==
                 c.call = "output" /\ c.ok /\ PinsOf(c) \cap {"si", "clk"} # {}
             w == SelectSeq(trace, OnDataOrClock)
             edges == {k \in 1..Len(w) : w[k].pins = <<"clk">> /\ w[k].val = "HIGH"}
         IN  /\ \A k \in 1..Len(w) :
                  ("si" \in PinsOf(w[k])) =>
                      \/ k = 1
                      \/ w[k].pins = <<"si">> /\ w[k - 1].pins = <<"si">>
                      \/ w[k].pins = <<"si">> /\ w[k - 1].pins = <<"clk">>
                           /\ w[k - 1].val = "LOW"
             /\ (raised = "none" /\ 0 <= last.arg /\ last.arg < 2 ^ capacity) =>
                  \A k \in edges :
                      LET n == Cardinality({j \in edges : j < k})
                          since == {j \in 1..(k - 1) :
                                      /\ "si" \in PinsOf(w[j])
                                      /\ \A e \in edges : ~(j < e /\ e < k)}
                      IN  /\ since # {}
                          /\ \A j \in since :
                               (w[j].val = "HIGH") <=> (BitAt(last.arg, capacity - 1 - n) = 1)

\* write_data(128) returned on an 8-bit register: si was written eight
\* times, HIGH for the first rising edge and LOW for the others, each time
\* with the shift clock LOW.
C20_Witness ==
    /\ WriteDone /\ capacity = 8 /\ last.arg = 128
    /\ level["clk"] = "LOW" /\ level["si"] = "LOW"
    /\ Cardinality(OutputsOn(trace, "si")) = 8
    /\ \A i \in OutputsOn(trace, "si") :
         PrevOn(trace, i, "clk") = 0 \/ trace[PrevOn(trace, i, "clk")].val = "LOW"

====
